---------------------------- MODULE Spec2Model ----------------------------
(***************************************************************************)
(* The purchase flow of the Paycrypt service pages: token approval, the    *)
(* createOrder transaction, block confirmation and the backend fulfilment  *)
(* call, as the four page components implement it on top of React state,   *)
(* wagmi's useWriteContract / useWaitForTransactionReceipt hooks and the   *)
(* embedded-wallet hook.                                                   *)
(*                                                                         *)
(*   "airtime"      src/app/airtime/page.tsx          (AirtimePageClient)  *)
(*   "airtimeEnh"   src/unnamed/part_004:51           (AirtimePage, with   *)
(*                  src/unnamed/part_003 useEnhancedWalletTransaction)     *)
(*   "electricity"  src/app/electricity/page.tsx      (ElectricityPage)    *)
(*   "tv"           src/unnamed/part_004:845          (TVPage)             *)
(*                                                                         *)
(* React is modelled by what it does to these components: an event handler *)
(* or callback runs to its next await with the values of the render that   *)
(* created it, its setState calls are batched, and the commit that follows *)
(* (action Commit) runs, in source order, every effect whose dependency    *)
(* array changed, each reading the values of that render.  A ref is read   *)
(* and written at once.  A commit comes before the next task.              *)
(***************************************************************************)
EXTENDS Integers, Sequences, FiniteSets, TLC

\* ------------------------------------------------------------------ bounds
\* Request ids that generateRequestId may hand out in one run.
MaxKeys == 4
\* Transactions requested from the wallet in one run.
MaxTxs == 4
\* Form edits and purchase clicks by the user in one run.
MaxInputs == 5
\* Backend requests dispatched in one run.
MaxPosts == 2
\* setTimeout callbacks pending at one time.
MaxTimers == 9

\* ------------------------------------------------------------- vocabulary
Pages == {"airtime", "airtimeEnh", "electricity", "tv"}

NoKey == 0      \* requestId === undefined
NoHash == 0     \* no transaction hash (undefined / null)
NoToken == "none"

\* CRYPTOS of the TV page; the other pages list the contract's active
\* ERC20 tokens (tokenType 0, ETH, is filtered out).
ActiveTokens(p) ==
  IF p = "tv" THEN {"ETH", "USDT", "USDC"} ELSE {"USDC", "CBBTC"}

Tokens == {"ETH", "USDT", "USDC", "CBBTC"}

\* The amounts a user may type (NGN); 0 is the empty field.
AmountInputs == {0, 50, 1000}

\* Beneficiary field (phone / meter / smart card, with its provider and
\* plan): 0 empty, 1 of a wrong length, 2 a well-formed number.
BenefInputs == {0, 1, 2}

TxStatuses ==
  {"idle", "waitingForApprovalSignature", "approving", "approvalSuccess",
   "approvalError", "waitingForSignature", "sending", "confirming", "success",
   "backendProcessing", "backendSuccess", "backendError", "error"}

VARIABLES
  page,                    \* which page component this instance is
  isEmbeddedWallet,        \* activeWallet.walletClientType === 'privy'
  isOnBaseChain,           \* currentChainId === base.id
  st,                      \* the component's useState cells
  backendRequestSentRef,   \* useRef: hash of the last backend request
  nextKey,                 \* request ids generated so far
  txs,                     \* every transaction requested from the wallet
  approveMut,              \* the request the approval useWriteContract observes
  mainMut,                 \* the request the payment useWriteContract observes
  emb,                     \* useEnhancedWalletTransaction's embedded state
  orders,                  \* keys with an order recorded on-chain
  existingOrderFor,        \* the last getOrder read: its key and whether it has a user
  timers,                  \* pending setTimeout callbacks with their closures
  posts,                   \* backend fulfilment requests dispatched
  verifyInflight,          \* beneficiary lookups awaiting a response
  hp,                      \* the running handlePurchase call, if any
  rendered,                \* the values of the last committed render
  inputs,                  \* form edits and purchase clicks so far
  verifiedAtClick          \* verificationSuccess && customerName of the render
                           \* whose handlePurchase was called last

vars == <<page, isEmbeddedWallet, isOnBaseChain, st, backendRequestSentRef,
          nextKey, txs, approveMut, mainMut, emb, orders, existingOrderFor,
          timers, posts, verifyInflight, hp, rendered, inputs, verifiedAtClick>>

\* ---------------------------------------------------------- derived values
\* Model-scale token metadata.  decimals are scaled down (6 -> 2, 8 -> 3,
\* 18 -> 4) so that the products below stay inside TLC's integers; the
\* price is what the price feed returned, in NGN per token.
TokenDecimals(t) ==
  CASE t = "ETH" -> 4 [] t = "USDT" -> 2 [] t = "USDC" -> 2 [] t = "CBBTC" -> 3
    [] OTHER -> 0

priceNGN(t) ==
  CASE t = "ETH" -> 5000 [] t = "USDT" -> 1500 [] t = "USDC" -> 1500
    [] t = "CBBTC" -> 150000000 [] OTHER -> 0

ERC20Address(t) == t \in {"USDT", "USDC", "CBBTC"}

RECURSIVE Pow10(_)
Pow10(n) == IF n = 0 THEN 1 ELSE 10 * Pow10(n - 1)

\* parseUnits(cryptoNeeded.toFixed(decimals), decimals) with
\* cryptoNeeded = priceNGN && amountNGN ? amountNGN / priceNGN : 0:
\* toFixed rounds to the nearest multiple of 10^-decimals.
tokenAmountForOrder(t, amountNGN) ==
  IF t = NoToken \/ priceNGN(t) = 0 \/ amountNGN = 0 THEN 0
  ELSE (2 * amountNGN * Pow10(TokenDecimals(t)) + priceNGN(t)) \div (2 * priceNGN(t))

\* toHex(toBytes(requestId || ""), { size: 32 }): the id's bytes, zero padded.
bytes32RequestId(rid) == <<"0x", rid, "00">>

\* generateRequestId(): Date.now() with a random suffix; taken as fresh.
generateRequestId(n) == n + 1

\* ------------------------------------------------------------ wagmi hooks
\* What useWriteContract and useWaitForTransactionReceipt report for the
\* request m they observe: an index of txs, NoRequest when idle or reset,
\* FailedCall when writeContract failed before it reached the wallet.
NoRequest == 0
FailedCall == -1

TxStatusOf(m) ==
  CASE m = NoRequest -> "none" [] m = FailedCall -> "rejected" [] OTHER -> txs[m].status

HookState(m) ==
  LET s == TxStatusOf(m) IN
  [isPending      |-> s = "requested",
   data           |-> IF s \in {"broadcast", "confirmed", "reverted"} THEN m ELSE NoHash,
   isError        |-> s = "rejected",
   isLoading      |-> s = "broadcast",
   isSuccess      |-> s = "confirmed",
   isConfirmError |-> s = "reverted"]

\* useEnhancedWalletTransaction's unified transaction state.
useEnhancedWalletTransaction ==
  LET x == HookState(mainMut) IN
  IF isEmbeddedWallet
  THEN [isPending      |-> emb.pending,
        data           |-> emb.hash,
        isError        |-> emb.error,
        isLoading      |-> FALSE,
        isSuccess      |-> emb.hash # NoHash,
        isConfirmError |-> FALSE]
  ELSE [isPending      |-> x.isPending,
        data           |-> x.data,
        isError        |-> x.isError \/ x.isConfirmError,
        isLoading      |-> x.isLoading,
        isSuccess      |-> x.isSuccess,
        isConfirmError |-> FALSE]

\* useReadContract(getOrder): existingOrder.user is a non-zero address.  The
\* query is keyed by its argument, so a result read for another request id
\* is not this render's data.
existingOrder ==
  /\ page # "electricity"
  /\ st.requestId # NoKey
  /\ existingOrderFor.key = bytes32RequestId(st.requestId)
  /\ existingOrderFor.found

\* Everything a render reads: the closure of the effects and handlers.
View ==
  [st   |-> st,
   ap   |-> HookState(approveMut),
   mn   |-> IF page = "airtimeEnh" THEN useEnhancedWalletTransaction
            ELSE HookState(mainMut),
   eo   |-> existingOrder,
   base |-> isOnBaseChain]

Dirty == View # rendered

\* ------------------------------------------------------------ React effects
\* An effect is an operator from the render's values c (View) and the
\* state a built so far in this commit to the state after it:
\*   a.st      the useState cells after the batched setState calls
\*   a.ref     backendRequestSentRef.current
\*   a.timers  pending setTimeout callbacks
\*   a.posts   backend requests dispatched
\*   a.nextKey request ids generated
NoMessage == [kind |-> "none", rid |-> NoKey]
Message(k, rid) == [kind |-> k, rid |-> rid]

Timer(k, key, t, amt, b) ==
  [kind |-> k, key |-> key, token |-> t, amount |-> amt, benef |-> b]

\* The closure of the approval effect's setTimeout callback.
OrderTimer(c) ==
  Timer("order", bytes32RequestId(c.st.requestId), c.st.token,
        tokenAmountForOrder(c.st.token, c.st.amount), 0)

ApprovalPhase == {"waitingForApprovalSignature", "approving", "approvalSuccess"}
BackendPhase == {"backendProcessing", "backendSuccess", "backendError"}

FormHasData(s) == s.token # NoToken \/ s.amount # 0 \/ s.benef # 0

TVFormComplete(s) ==
  s.token # NoToken /\ s.amount # 0 /\ s.benef # 0 /\ s.verificationSuccess

\* "Generate requestId when form has data"
requestIdEffect(c, a) ==
  IF FormHasData(c.st) /\ c.st.requestId = NoKey
  THEN [a EXCEPT !.st.requestId = generateRequestId(a.nextKey),
                 !.nextKey = generateRequestId(a.nextKey)]
  ELSE IF ~FormHasData(c.st) /\ c.st.requestId # NoKey
       THEN [a EXCEPT !.st.requestId = NoKey]
       ELSE a

\* The TV effect with the airtime and electricity condition: any one field
\* filled in gets a request id.
TV_requestIdEffect_AnyField(c, a) ==
  IF FormHasData(c.st) /\ c.st.requestId = NoKey
  THEN [a EXCEPT !.st.requestId = generateRequestId(a.nextKey),
                 !.nextKey = generateRequestId(a.nextKey)]
  ELSE IF ~FormHasData(c.st) /\ c.st.requestId # NoKey
       THEN [a EXCEPT !.st.requestId = NoKey]
       ELSE a

\* TVPage: "Generate requestId when user starts filling form", on the
\* complete and verified form only.
TV_requestIdEffect(c, a) ==
  IF TVFormComplete(c.st) /\ c.st.requestId = NoKey
  THEN [a EXCEPT !.st.requestId = generateRequestId(a.nextKey),
                 !.nextKey = generateRequestId(a.nextKey)]
  ELSE IF ~TVFormComplete(c.st) /\ c.st.requestId # NoKey
       THEN [a EXCEPT !.st.requestId = NoKey]
       ELSE a

\* "auto-verify meter" / "auto-verify card": the cleanup clears the pending
\* debounce timer, then the effect clears the result or starts a new timer.
WithoutVerifyTimer(ts) == SelectSeq(ts, LAMBDA t : t.kind # "verify")

verifyEffect(c, a) ==
  IF c.st.benef = 0 \/ c.st.benef = 1
  THEN [a EXCEPT !.st.verificationSuccess = FALSE,
                 !.timers = WithoutVerifyTimer(@)]
  ELSE [a EXCEPT !.timers =
          Append(WithoutVerifyTimer(@), Timer("verify", bytes32RequestId(NoKey), NoToken, 0, c.st.benef))]

\* handlePostTransaction without its duplicate guard: what the callback
\* would do if it did not compare backendRequestSentRef with the hash.
handlePostTransaction_Unguarded(c, a, transactionHash) ==
  [a EXCEPT !.ref = transactionHash,
            !.st.txStatus = "backendProcessing",
            !.st.backendMessage = Message("processing", NoKey),
            !.posts = Append(@, [hash      |-> transactionHash,
                                 requestId |-> c.st.requestId,
                                 token     |-> c.st.token,
                                 amount    |-> c.st.amount,
                                 benef     |-> c.st.benef,
                                 status    |-> "inflight",
                                 response  |-> "none"])]

\* handlePostTransaction up to its await: the duplicate guard, then the POST
\* with the values of the render that created the callback.
handlePostTransaction(c, a, transactionHash) ==
  IF a.ref = transactionHash THEN a
  ELSE [a EXCEPT !.ref = transactionHash,
                 !.st.txStatus = "backendProcessing",
                 !.st.backendMessage = Message("processing", NoKey),
                 !.posts = Append(@, [hash      |-> transactionHash,
                                      requestId |-> c.st.requestId,
                                      token     |-> c.st.token,
                                      amount    |-> c.st.amount,
                                      benef     |-> c.st.benef,
                                      status    |-> "inflight",
                                      response  |-> "none"])]

ResetForSignature(a, status) ==
  [a EXCEPT !.st.txStatus = status,
            !.st.transactionHashForModal = NoHash,
            !.st.transactionError = FALSE,
            !.st.backendMessage = NoMessage,
            !.ref = NoHash]

ShowHash(a, status, h) ==
  [a EXCEPT !.st.txStatus = status, !.st.transactionHashForModal = h]

ShowError(a, status, h) ==
  [a EXCEPT !.st.txStatus = status, !.st.transactionError = TRUE,
            !.st.transactionHashForModal = h]

\* "Effect to monitor approval transaction status"
Airtime_approvalEffect(c, a) ==
  IF ~c.st.showTransactionModal THEN a
  ELSE IF c.ap.isPending THEN ResetForSignature(a, "waitingForApprovalSignature")
  ELSE IF c.ap.data # NoHash /\ ~c.ap.isSuccess /\ ~c.ap.isLoading
       THEN ShowHash(a, "approving", c.ap.data)
  ELSE IF c.ap.isLoading THEN ShowHash(a, "approving", c.ap.data)
  ELSE IF c.ap.isSuccess
       THEN [a EXCEPT !.st.txStatus = "approvalSuccess",
                      !.timers = Append(@, OrderTimer(c))]
  ELSE IF c.ap.isError \/ c.ap.isConfirmError
       THEN [a EXCEPT !.st.txStatus = "error", !.st.transactionError = TRUE]
  ELSE a

Electricity_approvalEffect(c, a) ==
  IF ~c.st.showTransactionModal THEN a
  ELSE IF c.ap.isPending THEN ResetForSignature(a, "waitingForApprovalSignature")
  ELSE IF c.ap.data # NoHash /\ ~c.ap.isSuccess /\ ~c.ap.isLoading
       THEN ShowHash(a, "sending", c.ap.data)
  ELSE IF c.ap.isLoading THEN ShowHash(a, "approving", c.ap.data)
  ELSE IF c.ap.isSuccess
       THEN [a EXCEPT !.st.txStatus = "approvalSuccess",
                      !.timers = Append(@, OrderTimer(c))]
  ELSE IF c.ap.isError \/ c.ap.isConfirmError
       THEN [a EXCEPT !.st.txStatus = "approvalError", !.st.transactionError = TRUE]
  ELSE a

TV_approvalEffect(c, a) ==
  IF ~c.st.showTransactionModal THEN a
  ELSE IF c.ap.isPending THEN ResetForSignature(a, "waitingForApprovalSignature")
  ELSE IF c.ap.data # NoHash /\ ~c.ap.isSuccess /\ ~c.ap.isLoading
       THEN ShowHash(a, "sending", c.ap.data)
  ELSE IF c.ap.isLoading THEN ShowHash(a, "approving", c.ap.data)
  ELSE IF c.ap.isSuccess THEN [a EXCEPT !.st.txStatus = "approvalSuccess"]
  ELSE IF c.ap.isError \/ c.ap.isConfirmError
       THEN [a EXCEPT !.st.txStatus = "approvalError", !.st.transactionError = TRUE]
  ELSE a

\* "Effect to monitor main transaction status"
Confirmed(c, a) ==
  IF c.st.txStatus \notin BackendPhase
  THEN handlePostTransaction(c, ShowHash(a, "success", c.mn.data), c.mn.data)
  ELSE a

BackToIdle(c, a) ==
  IF c.st.txStatus \notin BackendPhase
  THEN [a EXCEPT !.st.txStatus = "idle",
                 !.st.transactionError = FALSE,
                 !.st.backendMessage = NoMessage,
                 !.st.transactionHashForModal = NoHash]
  ELSE a

Airtime_mainEffect(c, a) ==
  IF ~c.st.showTransactionModal THEN a
  ELSE IF c.st.txStatus \in ApprovalPhase THEN a
  ELSE IF c.mn.isPending THEN ResetForSignature(a, "waitingForSignature")
  ELSE IF c.mn.data # NoHash /\ ~c.mn.isSuccess /\ ~c.mn.isLoading
       THEN ShowHash(a, "sending", c.mn.data)
  ELSE IF c.mn.isLoading THEN ShowHash(a, "confirming", c.mn.data)
  ELSE IF c.mn.isSuccess THEN Confirmed(c, a)
  ELSE IF c.mn.isError \/ c.mn.isConfirmError THEN ShowError(a, "error", c.mn.data)
  ELSE a

Electricity_mainEffect(c, a) ==
  IF ~c.st.showTransactionModal THEN a
  ELSE IF c.st.txStatus \in ApprovalPhase \cup {"approvalError"} THEN a
  ELSE IF c.mn.isError
       THEN [a EXCEPT !.st.txStatus = "error", !.st.transactionError = TRUE]
  ELSE IF c.mn.isPending THEN ResetForSignature(a, "waitingForSignature")
  ELSE IF c.mn.data # NoHash /\ ~c.mn.isSuccess /\ ~c.mn.isLoading
       THEN ShowHash(a, "sending", c.mn.data)
  ELSE IF c.mn.isLoading THEN ShowHash(a, "confirming", c.mn.data)
  ELSE IF c.mn.isSuccess THEN Confirmed(c, a)
  ELSE IF c.mn.isConfirmError THEN ShowError(a, "error", c.mn.data)
  ELSE BackToIdle(c, a)

TV_mainEffect(c, a) ==
  IF ~c.st.showTransactionModal THEN a
  ELSE IF c.st.txStatus \in ApprovalPhase \cup {"approvalError"} THEN a
  ELSE IF c.mn.isPending THEN ResetForSignature(a, "waitingForSignature")
  ELSE IF c.mn.data # NoHash /\ ~c.mn.isSuccess /\ ~c.mn.isLoading
       THEN ShowHash(a, "sending", c.mn.data)
  ELSE IF c.mn.isLoading THEN ShowHash(a, "confirming", c.mn.data)
  ELSE IF c.mn.isSuccess THEN Confirmed(c, a)
  ELSE IF c.mn.isError \/ c.mn.isConfirmError THEN ShowError(a, "error", c.mn.data)
  ELSE BackToIdle(c, a)

\* "Monitor transaction status" of the page built on
\* useEnhancedWalletTransaction (one hook for approval and payment).
Enhanced_statusEffect(c, a) ==
  IF ~c.st.showTransactionModal THEN a
  ELSE IF c.mn.isPending THEN ResetForSignature(a, "waitingForSignature")
  ELSE IF c.mn.data # NoHash /\ ~c.mn.isSuccess /\ ~c.mn.isLoading
       THEN ShowHash(a, "sending", c.mn.data)
  ELSE IF c.mn.isLoading THEN ShowHash(a, "confirming", c.mn.data)
  ELSE IF c.mn.isSuccess THEN Confirmed(c, a)
  ELSE IF c.mn.isError THEN ShowError(a, "error", c.mn.data)
  ELSE a

\* ------------------------------------------------------------------ commit
\* The dependency arrays.  handlePostTransaction is a useCallback over the
\* request id and the form, so an effect that lists it re-runs with them.
FormDeps(v) == <<v.st.token, v.st.amount, v.st.benef>>
PostDeps(v) == <<v.st.requestId, v.st.token, v.st.amount, v.st.benef>>

RequestIdDeps(v) ==
  IF page = "tv" THEN <<FormDeps(v), v.st.verificationSuccess, v.st.requestId>>
  ELSE <<FormDeps(v), v.st.requestId>>

VerifyDeps(v) == v.st.benef

\* airtime/page.tsx lists the objects useWriteContract and
\* useWaitForTransactionReceipt return; they are built anew by every
\* render, so its two effects run at every commit.
ApprovalDeps(v) ==
  CASE page = "airtime" -> v
    [] page = "electricity" ->
         <<v.ap, v.st.showTransactionModal, v.st.token, v.st.requestId,
           tokenAmountForOrder(v.st.token, v.st.amount)>>
    [] OTHER -> <<v.ap, v.st.showTransactionModal>>

MainDeps(v) ==
  CASE page = "airtime" -> v
    [] OTHER -> <<v.mn, v.st.txStatus, PostDeps(v), v.st.showTransactionModal>>

\* The effects of one commit, in source order, for the render c that
\* follows the render r.
Effects(c, r, a) ==
  LET a1 == IF RequestIdDeps(c) # RequestIdDeps(r)
            THEN (IF page = "tv" THEN TV_requestIdEffect(c, a)
                  ELSE requestIdEffect(c, a))
            ELSE a
      a2 == IF page \in {"electricity", "tv"} /\ VerifyDeps(c) # VerifyDeps(r)
            THEN verifyEffect(c, a1) ELSE a1
      a3 == IF page # "airtimeEnh" /\ ApprovalDeps(c) # ApprovalDeps(r)
            THEN (CASE page = "airtime" -> Airtime_approvalEffect(c, a2)
                    [] page = "electricity" -> Electricity_approvalEffect(c, a2)
                    [] OTHER -> TV_approvalEffect(c, a2))
            ELSE a2
  IN IF MainDeps(c) # MainDeps(r)
     THEN (CASE page = "airtime" -> Airtime_mainEffect(c, a3)
             [] page = "electricity" -> Electricity_mainEffect(c, a3)
             [] page = "tv" -> TV_mainEffect(c, a3)
             [] OTHER -> Enhanced_statusEffect(c, a3))
     ELSE a3

Commit ==
  /\ Dirty
  /\ LET a == Effects(View, rendered,
                      [st |-> st, ref |-> backendRequestSentRef,
                       timers |-> timers, posts |-> posts, nextKey |-> nextKey])
     IN /\ a.nextKey <= MaxKeys /\ Len(a.posts) <= MaxPosts
        /\ Len(a.timers) <= MaxTimers
        /\ st' = a.st
        /\ backendRequestSentRef' = a.ref
        /\ timers' = a.timers
        /\ posts' = a.posts
        /\ nextKey' = a.nextKey
  /\ rendered' = View
  /\ UNCHANGED <<page, verifiedAtClick, isEmbeddedWallet, isOnBaseChain, txs, approveMut, mainMut,
                 emb, orders, existingOrderFor, verifyInflight, hp, inputs>>

\* ------------------------------------------------------------------- init
InitSt ==
  [token |-> NoToken, amount |-> 0, benef |-> 0, requestId |-> NoKey,
   txStatus |-> "idle", transactionError |-> FALSE, backendMessage |-> NoMessage,
   showTransactionModal |-> FALSE, transactionHashForModal |-> NoHash,
   verificationSuccess |-> FALSE]

NoCall == [pc |-> "idle"]

Init ==
  /\ page \in Pages
  /\ isEmbeddedWallet \in BOOLEAN
  /\ isEmbeddedWallet => page = "airtimeEnh"
  /\ isOnBaseChain \in BOOLEAN
  /\ st = InitSt
  /\ backendRequestSentRef = NoHash
  /\ nextKey = 0
  /\ txs = <<>>
  /\ approveMut = NoRequest
  /\ mainMut = NoRequest
  /\ emb = [hash |-> NoHash, pending |-> FALSE, error |-> FALSE]
  /\ orders = {}
  /\ existingOrderFor = [key |-> bytes32RequestId(NoKey), found |-> FALSE]
  /\ timers = <<>>
  /\ posts = <<>>
  /\ verifyInflight = {}
  /\ hp = NoCall
  /\ rendered = View
  /\ inputs = 0
  /\ verifiedAtClick = FALSE

\* A task (user event, wallet or network callback, timer) starts only once
\* the pending render is committed, and not inside a handler's microtask.
Idle == ~Dirty /\ hp.pc # "ensure"

\* ------------------------------------------------------------- form edits
\* Select onValueChange={setSelectedToken} / {setCrypto}
setSelectedToken(t) ==
  /\ Idle /\ inputs < MaxInputs
  /\ t \in ActiveTokens(page) /\ t # st.token
  /\ st' = [st EXCEPT !.token = t]
  /\ inputs' = inputs + 1
  /\ UNCHANGED <<page, verifiedAtClick, isEmbeddedWallet, isOnBaseChain, backendRequestSentRef,
                 nextKey, txs, approveMut, mainMut, emb, orders, existingOrderFor,
                 timers, posts, verifyInflight, hp, rendered>>

\* The amount input's onChange ("" and "0" clear it; the airtime pages cap
\* it at 50000), and on the TV page the plan select, shown once verified.
AmountTyped(v) ==
  IF page \in {"airtime", "airtimeEnh"} /\ v > 50000 THEN 50000 ELSE v

setAmount(v) ==
  /\ Idle /\ inputs < MaxInputs
  /\ v \in AmountInputs /\ AmountTyped(v) # st.amount
  /\ page = "tv" => v # 0 /\ st.verificationSuccess
  /\ page \in {"airtime", "airtimeEnh"} => st.token # NoToken
  /\ st' = [st EXCEPT !.amount = AmountTyped(v)]
  /\ inputs' = inputs + 1
  /\ UNCHANGED <<page, verifiedAtClick, isEmbeddedWallet, isOnBaseChain, backendRequestSentRef,
                 nextKey, txs, approveMut, mainMut, emb, orders, existingOrderFor,
                 timers, posts, verifyInflight, hp, rendered>>

\* The phone / meter number / smart card input's onChange; the meter and
\* smart card inputs also drop the verification result.
setBeneficiary(b) ==
  /\ Idle /\ inputs < MaxInputs
  /\ b \in BenefInputs /\ b # st.benef
  /\ st' = [st EXCEPT !.benef = b,
                      !.verificationSuccess =
                         IF page \in {"electricity", "tv"} THEN FALSE ELSE @]
  /\ inputs' = inputs + 1
  /\ UNCHANGED <<page, verifiedAtClick, isEmbeddedWallet, isOnBaseChain, backendRequestSentRef,
                 nextKey, txs, approveMut, mainMut, emb, orders, existingOrderFor,
                 timers, posts, verifyInflight, hp, rendered>>

\* --------------------------------------------------------- handlePurchase
\* What an event handler or callback may change, and its setState calls.
Program ==
  [st |-> st, nextKey |-> nextKey, txs |-> txs, approveMut |-> approveMut,
   mainMut |-> mainMut, emb |-> emb, timers |-> timers]

Apply(s) ==
  /\ s.nextKey <= MaxKeys /\ Len(s.txs) <= MaxTxs /\ Len(s.timers) <= MaxTimers
  /\ st' = s.st
  /\ nextKey' = s.nextKey
  /\ txs' = s.txs
  /\ approveMut' = s.approveMut
  /\ mainMut' = s.mainMut
  /\ emb' = s.emb
  /\ timers' = s.timers

setTxStatus(s, v) == [s EXCEPT !.st.txStatus = v]

setTransactionError(s, v) ==
  [s EXCEPT !.st.txStatus = v, !.st.transactionError = TRUE]

setShowTransactionModal(s, v) == [s EXCEPT !.st.showTransactionModal = v]

\* setRequestId(generateRequestId())
regenerateRequestId(s) ==
  [s EXCEPT !.st.requestId = generateRequestId(s.nextKey),
            !.nextKey = generateRequestId(s.nextKey)]

\* A transaction handed to the wallet.  key, token and amount are the
\* values the calling closure held: createOrder's arguments, and for an
\* approval the purchase attempt it was requested for.
Request(kind, key, token, amount, value, awaited) ==
  [kind |-> kind, key |-> key, token |-> token, amount |-> amount,
   value |-> value, status |-> "requested", awaited |-> awaited]

\* parseEther's 18 decimals, on the scale of TokenDecimals.
EtherDecimals == 4

\* cryptoNeeded = priceNGN && amountNGN ? amountNGN / priceNGN : 0
cryptoNeededPositive(t, amountNGN) ==
  t # NoToken /\ priceNGN(t) # 0 /\ amountNGN # 0

\* valueForEth without the test of the symbol: the value is computed for
\* whatever token is selected.
valueForEth_AnyToken(t, amountNGN) ==
  IF cryptoNeededPositive(t, amountNGN)
  THEN (2 * amountNGN * Pow10(EtherDecimals) + priceNGN(t)) \div (2 * priceNGN(t))
  ELSE 0

\* selectedCrypto?.symbol === 'ETH' && cryptoNeeded > 0
\*   ? parseEther(cryptoNeeded.toFixed(18)) : BigInt(0)
valueForEth(t, amountNGN) ==
  IF t = "ETH" /\ cryptoNeededPositive(t, amountNGN)
  THEN (2 * amountNGN * Pow10(EtherDecimals) + priceNGN(t)) \div (2 * priceNGN(t))
  ELSE 0

CallKey(c) == bytes32RequestId(c.st.requestId)
CallAmount(c) == tokenAmountForOrder(c.st.token, c.st.amount)

\* writeApprove({ functionName: 'approve', ... })
writeApprove(s, c) ==
  [s EXCEPT !.txs = Append(@, Request("approve", CallKey(c), c.st.token,
                                      CallAmount(c), 0, FALSE)),
            !.approveMut = Len(s.txs) + 1]

\* writeContract({ functionName: 'createOrder', args: [key, token, amount] })
\* on the payment hook; a call without a token address fails in the hook.
writeContract(s, key, token, amount, value) ==
  IF token = NoToken THEN [s EXCEPT !.mainMut = FailedCall]
  ELSE [s EXCEPT !.txs = Append(@, Request("order", key, token, amount, value, FALSE)),
                 !.mainMut = Len(s.txs) + 1]

\* canPay and isButtonDisabled of the two airtime pages.
canPay(v) ==
  /\ v.st.token # NoToken
  /\ v.st.amount >= 100 /\ v.st.amount <= 50000
  /\ v.st.benef = 2
  /\ priceNGN(v.st.token) # 0
  /\ v.st.requestId # NoKey
  /\ tokenAmountForOrder(v.st.token, v.st.amount) > 0

isButtonDisabled(v) ==
  \/ ~canPay(v)
  \/ v.st.txStatus \in {"waitingForApprovalSignature", "approving",
                        "waitingForSignature", "sending", "confirming",
                        "backendProcessing"}
  \/ v.ap.isPending \/ v.ap.isLoading
  \/ v.mn.isPending \/ v.mn.isLoading
  \/ ~v.base

\* The electricity and TV pages render the button without the disabled
\* attribute (it is commented out).
ButtonEnabled(v) == page \in {"electricity", "tv"} \/ ~isButtonDisabled(v)

\* handlePurchase up to "await ensureWalletConnected()".  The handler keeps
\* the values of the render it was created in.
handlePurchase ==
  /\ Idle /\ inputs < MaxInputs
  /\ ButtonEnabled(rendered)
  /\ st' = [st EXCEPT !.showTransactionModal = TRUE,
                      !.transactionError = FALSE,
                      !.backendMessage = NoMessage,
                      !.txStatus = "idle"]
  /\ backendRequestSentRef' = NoHash
  /\ hp' = [pc |-> "ensure", c |-> rendered]
  /\ inputs' = inputs + 1
  /\ verifiedAtClick' = rendered.st.verificationSuccess
  /\ UNCHANGED <<page, isEmbeddedWallet, isOnBaseChain, nextKey, txs, approveMut,
                 mainMut, emb, orders, existingOrderFor, timers, posts,
                 verifyInflight, rendered>>

\* The validations shared by the two airtime pages.
AirtimeInvalid(c) ==
  \/ c.st.requestId = NoKey \/ c.st.token = NoToken \/ c.st.amount <= 0
  \/ c.st.benef # 2
  \/ c.st.amount < 100 \/ c.st.amount > 50000
  \/ priceNGN(c.st.token) = 0
  \/ CallAmount(c) <= 0

\* src/app/airtime/page.tsx handlePurchase, after the await.
Airtime_handlePurchaseBody(c, s) ==
  IF ~c.base THEN setShowTransactionModal(s, FALSE)
  ELSE IF AirtimeInvalid(c) THEN setTxStatus(s, "error")
  ELSE IF c.eo THEN setTxStatus(regenerateRequestId(s), "error")
  ELSE regenerateRequestId(
         writeApprove(
           setTxStatus([s EXCEPT !.approveMut = NoRequest, !.mainMut = NoRequest],
                       "waitingForApprovalSignature"), c))

\* The electricity handler without the return that follows a failed
\* ensureWalletConnected: it goes on to the form checks off Base.
Electricity_handlePurchaseBody_NoChainCheck(c, s) ==
  IF c.st.requestId = NoKey THEN setTxStatus(s, "error")
  ELSE IF ~c.st.verificationSuccess THEN setTxStatus(s, "error")
  ELSE IF c.st.amount <= 0 THEN setTxStatus(s, "error")
  ELSE IF c.st.token = NoToken THEN setTxStatus(s, "error")
  ELSE IF CallAmount(c) = 0 THEN regenerateRequestId(s)
  ELSE regenerateRequestId(
         writeApprove(setTxStatus(s, "waitingForApprovalSignature"), c))

\* The electricity handler with the zero-amount branch of the airtime
\* handler: it reports the error and keeps the request id.
Electricity_handlePurchaseBody_KeepsKey(c, s) ==
  IF ~c.base THEN setShowTransactionModal(setTxStatus(s, "idle"), FALSE)
  ELSE IF c.st.requestId = NoKey THEN setTxStatus(s, "error")
  ELSE IF ~c.st.verificationSuccess THEN setTxStatus(s, "error")
  ELSE IF c.st.amount <= 0 THEN setTxStatus(s, "error")
  ELSE IF c.st.token = NoToken THEN setTxStatus(s, "error")
  ELSE IF CallAmount(c) = 0 THEN setTxStatus(s, "error")
  ELSE regenerateRequestId(
         writeApprove(setTxStatus(s, "waitingForApprovalSignature"), c))

\* src/app/electricity/page.tsx handlePurchase, after the await.
Electricity_handlePurchaseBody(c, s) ==
  IF ~c.base THEN setShowTransactionModal(setTxStatus(s, "idle"), FALSE)
  ELSE IF c.st.requestId = NoKey THEN setTxStatus(s, "error")
  ELSE IF ~c.st.verificationSuccess THEN setTxStatus(s, "error")
  ELSE IF c.st.amount <= 0 THEN setTxStatus(s, "error")
  ELSE IF c.st.token = NoToken THEN setTxStatus(s, "error")
  ELSE IF CallAmount(c) = 0 THEN regenerateRequestId(s)
  ELSE regenerateRequestId(
         writeApprove(setTxStatus(s, "waitingForApprovalSignature"), c))

\* The TV handler without the tokenType test that sends ETH past the
\* approval: every token, ETH included, is approved first.
TV_handlePurchaseBody_ApprovesEth(c, s, sim) ==
  IF ~c.base THEN setShowTransactionModal(s, FALSE)
  ELSE IF c.st.requestId = NoKey THEN setTxStatus(s, "error")
  ELSE IF ~c.st.verificationSuccess THEN setTxStatus(s, "error")
  ELSE IF c.st.amount <= 0 THEN setTxStatus(s, "error")
  ELSE IF c.st.token = NoToken THEN setTxStatus(s, "error")
  ELSE IF c.eo THEN regenerateRequestId(s)
  ELSE IF CallAmount(c) = 0 THEN regenerateRequestId(s)
  ELSE IF sim = "error" THEN regenerateRequestId(s)
  ELSE IF sim = "pending" THEN s
  ELSE IF ~c.ap.isSuccess
       THEN regenerateRequestId(
              writeApprove(setTxStatus(s, "waitingForApprovalSignature"), c))
  ELSE regenerateRequestId(
         writeContract(setTxStatus(s, "waitingForSignature"), CallKey(c),
                       c.st.token, CallAmount(c),
                       valueForEth(c.st.token, c.st.amount)))

\* TVPage handlePurchase, after the await; sim is what useSimulateContract
\* held in that render.
TV_handlePurchaseBody(c, s, sim) ==
  IF ~c.base THEN setShowTransactionModal(s, FALSE)
  ELSE IF c.st.requestId = NoKey THEN setTxStatus(s, "error")
  ELSE IF ~c.st.verificationSuccess THEN setTxStatus(s, "error")
  ELSE IF c.st.amount <= 0 THEN setTxStatus(s, "error")
  ELSE IF c.st.token = NoToken THEN setTxStatus(s, "error")
  ELSE IF c.eo THEN regenerateRequestId(s)
  ELSE IF CallAmount(c) = 0 THEN regenerateRequestId(s)
  ELSE IF sim = "error" THEN regenerateRequestId(s)
  ELSE IF sim = "pending" THEN s
  ELSE IF c.st.token # "ETH" /\ ~c.ap.isSuccess
       THEN regenerateRequestId(
              writeApprove(setTxStatus(s, "waitingForApprovalSignature"), c))
  ELSE regenerateRequestId(
         writeContract(setTxStatus(s, "waitingForSignature"), CallKey(c),
                       c.st.token, CallAmount(c),
                       valueForEth(c.st.token, c.st.amount)))

\* executeTransaction of useEnhancedWalletTransaction up to its await: the
\* embedded wallet's sendTransaction is awaited, an external wallet's
\* writeContract returns at once.
executeTransaction(s, kind, key, token, amount) ==
  IF isEmbeddedWallet
  THEN [s EXCEPT !.emb.pending = TRUE, !.emb.error = FALSE,
                 !.txs = Append(@, Request(kind, key, token, amount, 0, TRUE))]
  ELSE [s EXCEPT !.txs = Append(@, Request(kind, key, token, amount, 0, FALSE)),
                 !.mainMut = Len(s.txs) + 1]

\* reset() of useEnhancedWalletTransaction
resetTransaction(s) ==
  [s EXCEPT !.mainMut = NoRequest,
            !.emb = [hash |-> NoHash, pending |-> FALSE, error |-> FALSE]]

\* "await new Promise(resolve => setTimeout(resolve, 2000))"
Sleep(s, key, token, amount) ==
  [s EXCEPT !.timers = Append(@, Timer("sleep", key, token, amount, 0))]

\* AirtimePage (useEnhancedWalletTransaction) handlePurchase, after the
\* await and up to the next task boundary.
Enhanced_handlePurchaseBody(c, s) ==
  IF ~c.base THEN setShowTransactionModal(s, FALSE)
  ELSE IF AirtimeInvalid(c) THEN setTxStatus(s, "error")
  ELSE IF c.eo THEN setTxStatus(regenerateRequestId(s), "error")
  ELSE LET s1 == executeTransaction(
                   setTxStatus(resetTransaction(s), "waitingForApprovalSignature"),
                   "approve", CallKey(c), c.st.token, CallAmount(c))
       IN IF isEmbeddedWallet THEN s1
          ELSE Sleep(s1, CallKey(c), c.st.token, CallAmount(c))

Airtime_handlePurchase ==
  /\ page = "airtime" /\ ~Dirty /\ hp.pc = "ensure"
  /\ Apply(Airtime_handlePurchaseBody(hp.c, Program))
  /\ hp' = NoCall
  /\ UNCHANGED <<page, verifiedAtClick, isEmbeddedWallet, isOnBaseChain, backendRequestSentRef,
                 orders, existingOrderFor, posts, verifyInflight, rendered, inputs>>

Electricity_handlePurchase ==
  /\ page = "electricity" /\ ~Dirty /\ hp.pc = "ensure"
  /\ Apply(Electricity_handlePurchaseBody(hp.c, Program))
  /\ hp' = NoCall
  /\ UNCHANGED <<page, verifiedAtClick, isEmbeddedWallet, isOnBaseChain, backendRequestSentRef,
                 orders, existingOrderFor, posts, verifyInflight, rendered, inputs>>

TV_handlePurchase(sim) ==
  /\ page = "tv" /\ ~Dirty /\ hp.pc = "ensure"
  /\ Apply(TV_handlePurchaseBody(hp.c, Program, sim))
  /\ hp' = NoCall
  /\ UNCHANGED <<page, verifiedAtClick, isEmbeddedWallet, isOnBaseChain, backendRequestSentRef,
                 orders, existingOrderFor, posts, verifyInflight, rendered, inputs>>

Enhanced_handlePurchase ==
  /\ page = "airtimeEnh" /\ ~Dirty /\ hp.pc = "ensure"
  /\ Apply(Enhanced_handlePurchaseBody(hp.c, Program))
  /\ hp' = NoCall
  /\ UNCHANGED <<page, verifiedAtClick, isEmbeddedWallet, isOnBaseChain, backendRequestSentRef,
                 orders, existingOrderFor, posts, verifyInflight, rendered, inputs>>

\* ------------------------------------------------------------------ timers
RemoveAt(seq, i) == SubSeq(seq, 1, i - 1) \o SubSeq(seq, i + 1, Len(seq))

\* Timers of one kind have one delay, so they expire in creation order.
Expires(i, kind) ==
  /\ i \in 1..Len(timers)
  /\ timers[i].kind = kind
  /\ \A j \in 1..(i - 1) : timers[j].kind # kind

After(i) == [Program EXCEPT !.timers = RemoveAt(timers, i)]

\* The approval effect's setTimeout callback (airtime/page.tsx): it calls
\* createOrder with the request id, token and amount of the render that
\* scheduled it.
Airtime_orderTimer(i) ==
  /\ page = "airtime" /\ Idle /\ Expires(i, "order")
  /\ Apply(writeContract(setTxStatus(After(i), "waitingForSignature"),
                         timers[i].key, timers[i].token, timers[i].amount, 0))
  /\ UNCHANGED <<page, verifiedAtClick, isEmbeddedWallet, isOnBaseChain, backendRequestSentRef,
                 orders, existingOrderFor, posts, verifyInflight, hp, rendered, inputs>>

\* The same callback in electricity/page.tsx: selectedTokenObj!.address
\* throws without a token, and the catch reports the error.
Electricity_orderTimer(i) ==
  /\ page = "electricity" /\ Idle /\ Expires(i, "order")
  /\ Apply(IF timers[i].token = NoToken
           THEN setTransactionError(After(i), "error")
           ELSE writeContract(setTxStatus(After(i), "waitingForSignature"),
                              timers[i].key, timers[i].token, timers[i].amount, 0))
  /\ UNCHANGED <<page, verifiedAtClick, isEmbeddedWallet, isOnBaseChain, backendRequestSentRef,
                 orders, existingOrderFor, posts, verifyInflight, hp, rendered, inputs>>

\* AirtimePage handlePurchase after its 2 s sleep: "Step 2", and with an
\* external wallet the rest of the handler.
Enhanced_afterSleep(i) ==
  /\ page = "airtimeEnh" /\ Idle /\ Expires(i, "sleep")
  /\ LET s == executeTransaction(setTxStatus(After(i), "waitingForSignature"),
                                 "order", timers[i].key, timers[i].token,
                                 timers[i].amount)
     IN Apply(IF isEmbeddedWallet THEN s ELSE regenerateRequestId(s))
  /\ UNCHANGED <<page, verifiedAtClick, isEmbeddedWallet, isOnBaseChain, backendRequestSentRef,
                 orders, existingOrderFor, posts, verifyInflight, hp, rendered, inputs>>

\* "Reset form for next transaction after a delay"
resetFormTimer(i) ==
  /\ Idle /\ Expires(i, "reset")
  /\ LET s == After(i)
         cleared == [s EXCEPT !.st.token = NoToken, !.st.amount = 0, !.st.benef = 0]
     IN Apply(CASE page = "airtime" ->
                     [cleared EXCEPT !.st.requestId = NoKey,
                        !.timers = Append(@, Timer("clearId", bytes32RequestId(NoKey), NoToken, 0, 0))]
                [] page = "airtimeEnh" ->
                     [cleared EXCEPT
                        !.timers = Append(@, Timer("clearId", bytes32RequestId(NoKey), NoToken, 0, 0))]
                [] OTHER ->
                     [cleared EXCEPT !.st.requestId = NoKey,
                                     !.st.verificationSuccess = FALSE])
  /\ backendRequestSentRef' = NoHash
  /\ UNCHANGED <<page, verifiedAtClick, isEmbeddedWallet, isOnBaseChain, orders, existingOrderFor,
                 posts, verifyInflight, hp, rendered, inputs>>

\* "setTimeout(() => setRequestId(undefined), 100)"
clearRequestIdTimer(i) ==
  /\ Idle /\ Expires(i, "clearId")
  /\ Apply([After(i) EXCEPT !.st.requestId = NoKey])
  /\ UNCHANGED <<page, verifiedAtClick, isEmbeddedWallet, isOnBaseChain, backendRequestSentRef,
                 orders, existingOrderFor, posts, verifyInflight, hp, rendered, inputs>>

\* The debounced verification callback up to its await.
verifyTimer(i) ==
  /\ Idle /\ Expires(i, "verify")
  /\ Apply([After(i) EXCEPT !.st.verificationSuccess = FALSE])
  /\ verifyInflight' = verifyInflight \cup {timers[i].benef}
  /\ UNCHANGED <<page, verifiedAtClick, isEmbeddedWallet, isOnBaseChain, backendRequestSentRef,
                 orders, existingOrderFor, posts, hp, rendered, inputs>>

\* verifyMeterNumber / verifyCard answers: a customer name, or an error.
verifyResponse(b, found) ==
  /\ Idle /\ b \in verifyInflight
  /\ verifyInflight' = verifyInflight \ {b}
  /\ st' = IF found THEN [st EXCEPT !.verificationSuccess = TRUE] ELSE st
  /\ UNCHANGED <<page, verifiedAtClick, isEmbeddedWallet, isOnBaseChain, backendRequestSentRef,
                 nextKey, txs, approveMut, mainMut, emb, orders, existingOrderFor,
                 timers, posts, hp, rendered, inputs>>

\* ------------------------------------------------------- wallet and chain
\* An embedded-wallet request a handlePurchase call awaits: the rest of
\* executeTransaction and of the handler run when it settles.
EmbeddedSent(i, s) ==
  LET s1 == [s EXCEPT !.emb.hash = i, !.emb.pending = FALSE] IN
  IF s.txs[i].kind = "approve"
  THEN Sleep(s1, s.txs[i].key, s.txs[i].token, s.txs[i].amount)
  ELSE regenerateRequestId(s1)

EmbeddedFailed(s) ==
  regenerateRequestId(
    setTransactionError([s EXCEPT !.emb.error = TRUE, !.emb.pending = FALSE],
                        "error"))

\* The wallet presents its requests one at a time, oldest first, and the
\* chain mines an account's transactions in the order they were sent.
Oldest(i, status) ==
  /\ i \in 1..Len(txs)
  /\ txs[i].status = status
  /\ \A j \in 1..(i - 1) : txs[j].status # status

\* The user signs and the wallet broadcasts request i.
walletSign(i) ==
  /\ Idle /\ Oldest(i, "requested")
  /\ LET s == [Program EXCEPT !.txs[i].status = "broadcast"]
     IN Apply(IF txs[i].awaited THEN EmbeddedSent(i, s) ELSE s)
  /\ UNCHANGED <<page, verifiedAtClick, isEmbeddedWallet, isOnBaseChain, backendRequestSentRef,
                 orders, existingOrderFor, posts, verifyInflight, hp, rendered, inputs>>

\* The user rejects request i, or the wallet fails to send it.
walletReject(i) ==
  /\ Idle /\ Oldest(i, "requested")
  /\ LET s == [Program EXCEPT !.txs[i].status = "rejected"]
     IN Apply(IF txs[i].awaited THEN EmbeddedFailed(s) ELSE s)
  /\ UNCHANGED <<page, verifiedAtClick, isEmbeddedWallet, isOnBaseChain, backendRequestSentRef,
                 orders, existingOrderFor, posts, verifyInflight, hp, rendered, inputs>>

\* Transaction i is mined.  The contract records an order once per key: a
\* createOrder for a key that has an order reverts.
receiptSuccess(i) ==
  /\ Idle /\ Oldest(i, "broadcast")
  /\ txs[i].kind = "order" => txs[i].key \notin orders
  /\ txs' = [txs EXCEPT ![i].status = "confirmed"]
  /\ orders' = IF txs[i].kind = "order" THEN orders \cup {txs[i].key} ELSE orders
  /\ UNCHANGED <<page, verifiedAtClick, isEmbeddedWallet, isOnBaseChain, st, backendRequestSentRef,
                 nextKey, approveMut, mainMut, emb, existingOrderFor, timers,
                 posts, verifyInflight, hp, rendered, inputs>>

receiptReverted(i) ==
  /\ Idle /\ Oldest(i, "broadcast")
  /\ txs' = [txs EXCEPT ![i].status = "reverted"]
  /\ UNCHANGED <<page, verifiedAtClick, isEmbeddedWallet, isOnBaseChain, st, backendRequestSentRef,
                 nextKey, approveMut, mainMut, emb, orders, existingOrderFor,
                 timers, posts, verifyInflight, hp, rendered, inputs>>

\* useReadContract(getOrder) fetches the order of the current request id.
getOrder ==
  /\ Idle /\ page # "electricity"
  /\ st.requestId # NoKey
  /\ existingOrderFor' = [key   |-> bytes32RequestId(st.requestId),
                          found |-> bytes32RequestId(st.requestId) \in orders]
  /\ existingOrderFor' # existingOrderFor
  /\ UNCHANGED <<page, verifiedAtClick, isEmbeddedWallet, isOnBaseChain, st, backendRequestSentRef,
                 nextKey, txs, approveMut, mainMut, emb, orders, timers, posts,
                 verifyInflight, hp, rendered, inputs>>

\* switchChain({ chainId: base.id }) succeeds.
switchChain ==
  /\ Idle /\ ~isOnBaseChain
  /\ isOnBaseChain' = TRUE
  /\ UNCHANGED <<page, verifiedAtClick, isEmbeddedWallet, st, backendRequestSentRef, nextKey, txs,
                 approveMut, mainMut, emb, orders, existingOrderFor, timers, posts,
                 verifyInflight, hp, rendered, inputs>>

\* ----------------------------------------------------------------- backend
\* What the backend may answer to a fulfilment request: a 2xx status with a
\* JSON body, a 2xx status with a body that is not JSON, or another status
\* (whose body the code never reads; a failed fetch takes the same path).
HttpResponses == {"2xx-json", "2xx-other", "non-2xx"}

\* The call of lib/api.ts without its test of res.ok: whatever the status,
\* it returns what res.json() gives.
buyAirtime_IgnoresStatus(res) ==
  IF res = "2xx-other" THEN "throws" ELSE "returns"

\* buyAirtime, payElectricityBill and payTVSubscription of lib/api.ts, from
\* the response on: "if (!res.ok) throw new Error(...)", then
\* "return await res.json()", which rejects when the body does not parse.
buyAirtime(res) ==
  IF res = "non-2xx" THEN "throws"
  ELSE IF res = "2xx-other" THEN "throws"
  ELSE "returns"

\* The rest of handlePostTransaction once the POST of posts[i] settles: the
\* code after the await when the call returns, the catch when it throws.
BackendSuccess(s) ==
  LET s1 == [s EXCEPT !.st.txStatus = "backendSuccess",
                      !.st.backendMessage = Message("delivered", NoKey)]
  IN IF page = "tv"
     THEN [s1 EXCEPT !.st.token = NoToken, !.st.amount = 0, !.st.benef = 0,
                     !.st.verificationSuccess = FALSE, !.st.requestId = NoKey]
     ELSE [s1 EXCEPT !.timers =
             Append(@, Timer("reset", bytes32RequestId(NoKey), NoToken, 0, 0))]

BackendError(s, rid) ==
  [s EXCEPT !.st.txStatus = "backendError",
            !.st.backendMessage = Message("failed", rid)]

backendResponse(i, res) ==
  /\ Idle /\ i \in 1..Len(posts) /\ posts[i].status = "inflight"
  /\ LET ok == buyAirtime(res) = "returns"
     IN /\ posts' = [posts EXCEPT ![i].status = IF ok THEN "ok" ELSE "failed",
                                  ![i].response = res]
        /\ Apply(IF ok THEN BackendSuccess(Program)
                 ELSE BackendError(Program, posts[i].requestId))
        /\ backendRequestSentRef' =
             IF ok /\ page = "tv" THEN NoHash ELSE backendRequestSentRef
  /\ UNCHANGED <<page, verifiedAtClick, isEmbeddedWallet, isOnBaseChain, orders, existingOrderFor,
                 verifyInflight, hp, rendered, inputs>>

\* ---------------------------------------------------------- handleCloseModal
CriticalPhase ==
  {"waitingForApprovalSignature", "approving", "waitingForSignature", "sending",
   "confirming", "backendProcessing"}

\* The TV page's handleCloseModal has no guard; the others return while the
\* status they were created with is a critical one.
handleCloseModal ==
  /\ Idle /\ rendered.st.showTransactionModal
  /\ page # "tv" => rendered.st.txStatus \notin CriticalPhase
  /\ st' = [st EXCEPT !.showTransactionModal = FALSE,
                      !.txStatus = "idle",
                      !.transactionError = FALSE,
                      !.backendMessage = NoMessage,
                      !.transactionHashForModal = NoHash]
  /\ backendRequestSentRef' = NoHash
  /\ UNCHANGED <<page, verifiedAtClick, isEmbeddedWallet, isOnBaseChain, nextKey, txs, approveMut,
                 mainMut, emb, orders, existingOrderFor, timers, posts,
                 verifyInflight, hp, rendered, inputs>>

\* ------------------------------------------------------------- next state
Next ==
  \/ Commit
  \/ \E t \in Tokens : setSelectedToken(t)
  \/ \E v \in AmountInputs : setAmount(v)
  \/ \E b \in BenefInputs : setBeneficiary(b)
  \/ handlePurchase
  \/ Airtime_handlePurchase
  \/ Electricity_handlePurchase
  \/ \E sim \in {"ok", "error", "pending"} : TV_handlePurchase(sim)
  \/ Enhanced_handlePurchase
  \/ handleCloseModal
  \/ \E i \in 1..MaxTimers : Airtime_orderTimer(i)
  \/ \E i \in 1..MaxTimers : Electricity_orderTimer(i)
  \/ \E i \in 1..MaxTimers : Enhanced_afterSleep(i)
  \/ \E i \in 1..MaxTimers : resetFormTimer(i)
  \/ \E i \in 1..MaxTimers : clearRequestIdTimer(i)
  \/ \E i \in 1..MaxTimers : verifyTimer(i)
  \/ \E b \in BenefInputs, found \in BOOLEAN : verifyResponse(b, found)
  \/ \E i \in 1..MaxTxs : walletSign(i)
  \/ \E i \in 1..MaxTxs : walletReject(i)
  \/ \E i \in 1..MaxTxs : receiptSuccess(i)
  \/ \E i \in 1..MaxTxs : receiptReverted(i)
  \/ \E i \in 1..MaxPosts, res \in HttpResponses : backendResponse(i, res)
  \/ getOrder
  \/ switchChain

Spec == Init /\ [][Next]_vars

\* ------------------------------------------------- one page at a time
\* The same machine with the page fixed: the actions are those the page has.
InitAirtime == Init /\ page = "airtime"

NextAirtime ==
  \/ Commit
  \/ \E t \in Tokens : setSelectedToken(t)
  \/ \E v \in AmountInputs : setAmount(v)
  \/ \E b \in BenefInputs : setBeneficiary(b)
  \/ handlePurchase
  \/ Airtime_handlePurchase
  \/ handleCloseModal
  \/ \E i \in 1..MaxTimers : Airtime_orderTimer(i)
  \/ \E i \in 1..MaxTimers : resetFormTimer(i)
  \/ \E i \in 1..MaxTimers : clearRequestIdTimer(i)
  \/ \E i \in 1..MaxTxs : walletSign(i)
  \/ \E i \in 1..MaxTxs : walletReject(i)
  \/ \E i \in 1..MaxTxs : receiptSuccess(i)
  \/ \E i \in 1..MaxTxs : receiptReverted(i)
  \/ \E i \in 1..MaxPosts, res \in HttpResponses : backendResponse(i, res)
  \/ getOrder
  \/ switchChain

SpecAirtime == InitAirtime /\ [][NextAirtime]_vars

InitEnhanced == Init /\ page = "airtimeEnh" /\ ~isEmbeddedWallet

NextEnhanced ==
  \/ Commit
  \/ \E t \in Tokens : setSelectedToken(t)
  \/ \E v \in AmountInputs : setAmount(v)
  \/ \E b \in BenefInputs : setBeneficiary(b)
  \/ handlePurchase
  \/ Enhanced_handlePurchase
  \/ handleCloseModal
  \/ \E i \in 1..MaxTimers : Enhanced_afterSleep(i)
  \/ \E i \in 1..MaxTimers : resetFormTimer(i)
  \/ \E i \in 1..MaxTimers : clearRequestIdTimer(i)
  \/ \E i \in 1..MaxTxs : walletSign(i)
  \/ \E i \in 1..MaxTxs : walletReject(i)
  \/ \E i \in 1..MaxTxs : receiptSuccess(i)
  \/ \E i \in 1..MaxTxs : receiptReverted(i)
  \/ \E i \in 1..MaxPosts, res \in HttpResponses : backendResponse(i, res)
  \/ getOrder
  \/ switchChain

SpecEnhanced == InitEnhanced /\ [][NextEnhanced]_vars

\* The same page with the embedded (Privy) wallet.
InitEmbedded == Init /\ page = "airtimeEnh" /\ isEmbeddedWallet

SpecEmbedded == InitEmbedded /\ [][NextEnhanced]_vars

InitElectricity == Init /\ page = "electricity"

NextElectricity ==
  \/ Commit
  \/ \E t \in Tokens : setSelectedToken(t)
  \/ \E v \in AmountInputs : setAmount(v)
  \/ \E b \in BenefInputs : setBeneficiary(b)
  \/ handlePurchase
  \/ Electricity_handlePurchase
  \/ handleCloseModal
  \/ \E i \in 1..MaxTimers : Electricity_orderTimer(i)
  \/ \E i \in 1..MaxTimers : resetFormTimer(i)
  \/ \E i \in 1..MaxTimers : verifyTimer(i)
  \/ \E b \in BenefInputs, found \in BOOLEAN : verifyResponse(b, found)
  \/ \E i \in 1..MaxTxs : walletSign(i)
  \/ \E i \in 1..MaxTxs : walletReject(i)
  \/ \E i \in 1..MaxTxs : receiptSuccess(i)
  \/ \E i \in 1..MaxTxs : receiptReverted(i)
  \/ \E i \in 1..MaxPosts, res \in HttpResponses : backendResponse(i, res)
  \/ switchChain

SpecElectricity == InitElectricity /\ [][NextElectricity]_vars

InitTV == Init /\ page = "tv"

NextTV ==
  \/ Commit
  \/ \E t \in Tokens : setSelectedToken(t)
  \/ \E v \in AmountInputs : setAmount(v)
  \/ \E b \in BenefInputs : setBeneficiary(b)
  \/ handlePurchase
  \/ \E sim \in {"ok", "error", "pending"} : TV_handlePurchase(sim)
  \/ handleCloseModal
  \/ \E i \in 1..MaxTimers : verifyTimer(i)
  \/ \E b \in BenefInputs, found \in BOOLEAN : verifyResponse(b, found)
  \/ \E i \in 1..MaxTxs : walletSign(i)
  \/ \E i \in 1..MaxTxs : walletReject(i)
  \/ \E i \in 1..MaxTxs : receiptSuccess(i)
  \/ \E i \in 1..MaxTxs : receiptReverted(i)
  \/ \E i \in 1..MaxPosts, res \in HttpResponses : backendResponse(i, res)
  \/ getOrder
  \/ switchChain

SpecTV == InitTV /\ [][NextTV]_vars

\* ------------------------------------------------- the filled-in form
\* Inputs left to a run that starts from the filled-in form.
MaxFurtherInputs == 3

\* The electricity and TV pages once the user has chosen a token, entered a
\* number that the lookup verified and an amount (a plan), and the request
\* id effect has run: the state a second purchase of a visit is made from.
\* The run has MaxFurtherInputs edits and clicks left, and the wallet is on
\* Base throughout.
FilledForm(t) ==
  [InitSt EXCEPT !.token = t, !.amount = 1000, !.benef = 2,
                 !.verificationSuccess = TRUE, !.requestId = generateRequestId(0)]

InitFilled ==
  /\ isEmbeddedWallet = FALSE
  /\ isOnBaseChain = TRUE
  /\ \E t \in ActiveTokens(page) : st = FilledForm(t)
  /\ backendRequestSentRef = NoHash
  /\ nextKey = generateRequestId(0)
  /\ txs = <<>>
  /\ approveMut = NoRequest
  /\ mainMut = NoRequest
  /\ emb = [hash |-> NoHash, pending |-> FALSE, error |-> FALSE]
  /\ orders = {}
  /\ existingOrderFor = [key |-> bytes32RequestId(NoKey), found |-> FALSE]
  /\ timers = <<>>
  /\ posts = <<>>
  /\ verifyInflight = {}
  /\ hp = NoCall
  /\ rendered = View
  /\ inputs = MaxInputs - MaxFurtherInputs
  /\ verifiedAtClick = FALSE

InitElectricityFilled == page = "electricity" /\ InitFilled

\* The electricity page with the status dialog taken as modal: while it is
\* shown the form and the Purchase button behind it take no input.
NextElectricityFilled ==
  \/ Commit
  \/ ~st.showTransactionModal /\ \E t \in Tokens : setSelectedToken(t)
  \/ ~st.showTransactionModal /\ \E v \in AmountInputs : setAmount(v)
  \/ ~st.showTransactionModal /\ \E b \in BenefInputs : setBeneficiary(b)
  \/ ~st.showTransactionModal /\ handlePurchase
  \/ Electricity_handlePurchase
  \/ handleCloseModal
  \/ \E i \in 1..MaxTimers : Electricity_orderTimer(i)
  \/ \E i \in 1..MaxTimers : resetFormTimer(i)
  \/ \E i \in 1..MaxTimers : verifyTimer(i)
  \/ \E b \in BenefInputs, found \in BOOLEAN : verifyResponse(b, found)
  \/ \E i \in 1..MaxTxs : walletSign(i)
  \/ \E i \in 1..MaxTxs : walletReject(i)
  \/ \E i \in 1..MaxTxs : receiptSuccess(i)
  \/ \E i \in 1..MaxTxs : receiptReverted(i)
  \/ \E i \in 1..MaxPosts, res \in HttpResponses : backendResponse(i, res)

SpecElectricityFilled == InitElectricityFilled /\ [][NextElectricityFilled]_vars

InitTVFilled == page = "tv" /\ InitFilled

\* The TV page with the status dialog taken as modal.
NextTVFilled ==
  \/ Commit
  \/ ~st.showTransactionModal /\ \E t \in Tokens : setSelectedToken(t)
  \/ ~st.showTransactionModal /\ \E v \in AmountInputs : setAmount(v)
  \/ ~st.showTransactionModal /\ \E b \in BenefInputs : setBeneficiary(b)
  \/ ~st.showTransactionModal /\ handlePurchase
  \/ \E sim \in {"ok", "error", "pending"} : TV_handlePurchase(sim)
  \/ handleCloseModal
  \/ \E i \in 1..MaxTimers : verifyTimer(i)
  \/ \E b \in BenefInputs, found \in BOOLEAN : verifyResponse(b, found)
  \/ \E i \in 1..MaxTxs : walletSign(i)
  \/ \E i \in 1..MaxTxs : walletReject(i)
  \/ \E i \in 1..MaxTxs : receiptSuccess(i)
  \/ \E i \in 1..MaxTxs : receiptReverted(i)
  \/ \E i \in 1..MaxPosts, res \in HttpResponses : backendResponse(i, res)
  \/ getOrder

SpecTVFilled == InitTVFilled /\ [][NextTVFilled]_vars

\* ------------------------------------------------------------------ claims
\* C1: over the lifetime of a page instance, the backend fulfilment request
\* is dispatched at most once for any one transaction hash.
C1_OnePostPerHash ==
  \A i, j \in 1..Len(posts) : posts[i].hash = posts[j].hash => i = j

\* The transactions handed to the wallet so far, by kind; a transaction's
\* hash is its position in txs.
OrderRequests == {i \in 1..Len(txs) : txs[i].kind = "order"}
ApprovalRequests == {i \in 1..Len(txs) : txs[i].kind = "approve"}

\* The approval requested last before transaction i, 0 when there is none.
\* Every purchase attempt of the airtime and electricity pages starts with
\* an approval, so it is the approval of the attempt i belongs to.
LastApproval(i) ==
  LET before == {j \in ApprovalRequests : j < i}
  IN IF before = {} THEN 0 ELSE CHOOSE j \in before : \A k \in before : k <= j

\* C2: a backend call carries the hash of a createOrder transaction whose
\* confirmation has been observed, never the hash of an approval or of a
\* transaction that is only broadcast.
C2_PostOnlyConfirmedOrder ==
  \A p \in 1..Len(posts) :
    /\ posts[p].hash \in OrderRequests
    /\ txs[posts[p].hash].status = "confirmed"

\* C3: createOrder is requested from the wallet only once the approval of
\* its attempt is confirmed on-chain.
C3_OrderAfterApprovalConfirmed ==
  \A i \in OrderRequests :
    (txs[i].token # "ETH" /\ LastApproval(i) # 0)
      => txs[LastApproval(i)].status = "confirmed"

\* The transactions a step hands to the wallet.
NewRequests == (Len(txs) + 1)..Len(txs')

\* A handlePurchase call resumes after its wallet check and runs to its end.
PurchaseRuns == hp.pc = "ensure" /\ hp' = NoCall

\* C4: a handlePurchase attempt whose current key has an on-chain order is
\* rejected before broadcasting: it hands no approval and no order to the
\* wallet, and the key is replaced by a new one.
C4_ExistingOrderRejected ==
  [][(PurchaseRuns /\ CallKey(hp.c) \in orders)
       => (NewRequests = {} /\ st'.requestId # hp.c.st.requestId)]_vars

\* C5: a createOrder carries the key its attempt's Order Existence Guard
\* read and found unused.  The guard runs in handlePurchase just before the
\* approval is requested, so the approval of the attempt records the key
\* the guard read; the electricity page has no guard.
C5_OrderKeyWasChecked ==
  \A i \in OrderRequests :
    /\ page # "electricity"
    /\ LastApproval(i) # 0 => txs[LastApproval(i)].key = txs[i].key

\* C6: a handlePurchase click that passes validation leads to at most one
\* createOrder request.  On the airtime and electricity pages each such
\* click requests one approval, so two createOrder requests have an approval
\* request between them.
C6_OneOrderPerClick ==
  \A i, j \in OrderRequests :
    i < j => \E k \in ApprovalRequests : i < k /\ k < j

\* C7: no two createOrder submissions of one page instance carry the same
\* key.
C7_KeyNeverReused ==
  \A i, j \in OrderRequests : txs[i].key = txs[j].key => i = j

\* C8: the requestId sent to the backend with hash H is the key encoded in
\* the createOrder transaction with hash H.
C8_BackendKeyIsOrderKey ==
  \A p \in 1..Len(posts) :
    posts[p].hash \in OrderRequests
      => bytes32RequestId(posts[p].requestId) = txs[posts[p].hash].key

\* The attempt transaction i belongs to has reached a terminal state: the
\* transaction was rejected or reverted (status 'error'), or the backend
\* answered the request sent for it (backendSuccess, backendError).
ReachedTerminal(i) ==
  \/ txs[i].status \in {"rejected", "reverted"}
  \/ \E p \in 1..Len(posts) : posts[p].hash = i /\ posts[p].status # "inflight"

\* C9: once an attempt has reached a terminal state, the createOrder of a
\* later handlePurchase submission carries a key different from that
\* attempt's key.  A later submission is one whose approval was requested
\* after transaction i.
C9_FreshKeyAfterTerminal ==
  [][\A j \in NewRequests : \A i \in 1..Len(txs) :
       (/\ txs'[j].kind = "order"
        /\ ReachedTerminal(i)
        /\ LastApproval(j) > i)
         => txs'[j].key # txs[i].key]_vars

\* C10: when the approval of an attempt is rejected or fails to confirm, no
\* createOrder is requested for that attempt.
C10_NoOrderAfterFailedApproval ==
  \A i \in OrderRequests :
    LastApproval(i) # 0
      => txs[LastApproval(i)].status \notin {"rejected", "reverted"}

\* The order whose confirmation the flow last showed, when it is one.
ShownOrder ==
  IF st.transactionHashForModal \in OrderRequests
  THEN st.transactionHashForModal ELSE NoRequest

\* C11: in the backend-failure state the flow state holds the hash of the
\* confirmed createOrder transaction, and the failure message and the
\* request id passed to the modal name the key that transaction carried.
C11_FailureShowsOrderKey ==
  st.txStatus = "backendError" =>
    /\ ShownOrder # NoRequest
    /\ txs[ShownOrder].status = "confirmed"
    /\ bytes32RequestId(st.backendMessage.rid) = txs[ShownOrder].key
    /\ bytes32RequestId(st.requestId) = txs[ShownOrder].key

\* A backend request sent for a confirmed createOrder transaction got an
\* error answer.
FailedOrderPosts ==
  {p \in 1..Len(posts) :
     /\ posts[p].status = "failed"
     /\ posts[p].hash \in OrderRequests
     /\ txs[posts[p].hash].status = "confirmed"}

\* The createOrder calls scheduled and not yet made.
ScheduledOrders(ts) == {i \in 1..Len(ts) : ts[i].kind \in {"order", "sleep"}}

\* C12: when the backend call for a confirmed order fails the flow reaches
\* backendError, and while it is there no step other than a purchase click
\* dispatches a backend request, hands a transaction to the wallet or
\* schedules one.
C12_NoAutomaticRetry ==
  [][/\ \A p \in 1..Len(posts) :
          (posts[p].status = "inflight" /\ posts'[p].status = "failed")
            => st'.txStatus = "backendError"
     /\ (st.txStatus = "backendError" /\ FailedOrderPosts # {})
          => /\ Len(posts') = Len(posts)
             /\ Len(txs') = Len(txs)
             /\ Cardinality(ScheduledOrders(timers'))
                  <= Cardinality(ScheduledOrders(timers))]_vars

\* The statuses from the approval signature request to the backend call.
InFlightStatuses ==
  {"waitingForApprovalSignature", "approving", "approvalSuccess",
   "waitingForSignature", "sending", "confirming", "success",
   "backendProcessing"}

\* handleCloseModal runs to its end: it is the one step outside a
\* handlePurchase call that hides the modal.
ModalCloses ==
  hp = NoCall /\ hp' = NoCall /\ st.showTransactionModal /\ ~st'.showTransactionModal

\* C13: handleCloseModal leaves the modal open and the flow state as it is
\* while the status is an in-flight one: no step closes the modal then.
C13_NoCloseInFlight ==
  [][ModalCloses => st.txStatus \notin InFlightStatuses]_vars

\* A transaction is broadcast and has no receipt yet.
BroadcastPending == {i \in 1..Len(txs) : txs[i].status = "broadcast"}

\* handleCloseModal, called in the committed render v, returns at its guard.
CloseRefused(v) == page # "tv" /\ v.st.txStatus \in CriticalPhase

\* C14: in a committed render with a transaction broadcast and neither
\* confirmed nor failed, the status is not idle and handleCloseModal
\* refuses to close the flow.
C14_NoCancelAfterBroadcast ==
  (~Dirty /\ hp = NoCall /\ BroadcastPending # {})
    => (st.txStatus # "idle" /\ CloseRefused(rendered))

\* An attempt is in flight: a transaction is with the wallet or the chain,
\* a createOrder is scheduled, or the backend has not answered yet.
AttemptInFlight ==
  \/ \E i \in 1..Len(txs) : txs[i].status \in {"requested", "broadcast"}
  \/ ScheduledOrders(timers) # {}
  \/ \E p \in 1..Len(posts) : posts[p].status = "inflight"

\* The purchase button is clicked: a handlePurchase call starts.
PurchaseClick == hp = NoCall /\ hp'.pc = "ensure"

\* C15: while an attempt is in flight handlePurchase starts no second one.
\* The click considered is one made with the progress modal hidden, where
\* the button is not covered: it leaves the status and the duplicate guard
\* alone, and the call hands no transaction to the wallet.
C15_OneActivePurchase ==
  [][/\ (PurchaseClick /\ AttemptInFlight /\ ~st.showTransactionModal)
          => (st'.txStatus = st.txStatus
              /\ backendRequestSentRef' = backendRequestSentRef)
     /\ (PurchaseRuns /\ AttemptInFlight /\ ~hp.c.st.showTransactionModal)
          => NewRequests = {}]_vars

\* What a callback called in the current state reads and writes.
CallState ==
  [st |-> st, ref |-> backendRequestSentRef, timers |-> timers,
   posts |-> posts, nextKey |-> nextKey]

ConfirmedHashes == {h \in 1..Len(txs) : txs[h].status = "confirmed"}

C17_NoZeroAmountOnChain ==
  \A i \in 1..Len(txs) : txs[i].amount > 0

\* The handlePurchase call made in render c passes the checks that come
\* before the amount check and finds the quantized amount to be zero.
FindsZeroAmount(c) ==
  /\ c.base
  /\ c.st.requestId # NoKey /\ c.st.token # NoToken /\ c.st.amount > 0
  /\ page \in {"electricity", "tv"} => c.st.verificationSuccess
  /\ page \in {"airtime", "airtimeEnh"} =>
       (c.st.benef = 2 /\ c.st.amount >= 100 /\ c.st.amount <= 50000
        /\ priceNGN(c.st.token) # 0)
  /\ CallAmount(c) = 0

\* C18: a handlePurchase call that finds the quantized amount to be zero
\* hands nothing to the wallet and leaves a request id that is new: not the
\* one the click was made with.
C18_ZeroAmountRegeneratesKey ==
  [][(PurchaseRuns /\ FindsZeroAmount(hp.c))
       => /\ NewRequests = {}
          /\ st'.requestId \notin {NoKey, hp.c.st.requestId}
          /\ st'.requestId = nextKey']_vars

\* Just after such a call: the modal the click opened, no status, a request
\* id the last render has not seen, and the form that quantizes to zero.
C18_Witness ==
  /\ hp = NoCall /\ st.showTransactionModal /\ st.txStatus = "idle"
  /\ FindsZeroAmount(rendered)
  /\ st.requestId \notin {NoKey, rendered.st.requestId}
  /\ txs = <<>>

\* The handlePurchase call made in render c fails one of the handler's form
\* checks: a field is missing, the amount is out of bounds, or the
\* beneficiary is not verified.
LocalValidationFails(c) ==
  /\ c.base
  /\ IF page \in {"airtime", "airtimeEnh"} THEN AirtimeInvalid(c)
     ELSE \/ c.st.requestId = NoKey \/ c.st.token = NoToken
          \/ c.st.amount <= 0 \/ ~c.st.verificationSuccess

\* C19: a click that fails a form check leaves the status idle and causes
\* no wallet transaction and no backend request: neither the call itself
\* nor the render the click caused hands over, schedules or posts anything.
C19_InvalidClickStaysIdle ==
  [][/\ (PurchaseRuns /\ LocalValidationFails(hp.c))
          => (st'.txStatus = "idle" /\ NewRequests = {})
     /\ (hp.pc = "ensure" /\ hp' = hp /\ LocalValidationFails(hp.c))
          => /\ Len(posts') = Len(posts)
             /\ Cardinality(ScheduledOrders(timers'))
                  <= Cardinality(ScheduledOrders(timers))]_vars

BelowMinimum(c) == c.base /\ c.st.amount > 0 /\ c.st.amount < 100

\* C21: a purchase submitted with amount 50 ends in a validation error: the
\* call generates no request id, hands no transaction to the wallet,
\* schedules none and sends no backend request.
C21_BelowMinimumRejected ==
  [][(PurchaseRuns /\ BelowMinimum(hp.c))
       => /\ NewRequests = {}
          /\ nextKey' = nextKey
          /\ timers' = timers
          /\ posts' = posts
          /\ st'.txStatus = "error"]_vars

\* The amount of render c is outside the bounds the pages state for it.
OutOfBounds(c) == c.st.amount < 100 \/ c.st.amount > 50000

\* C22: on the pages whose amount is typed in by the user (the TV page takes
\* the price of the chosen plan), a handlePurchase call made with an amount
\* below 100 or above 50000 hands neither an approval nor a createOrder to
\* the wallet.
C22_AmountBoundsChecked ==
  [][(PurchaseRuns /\ page # "tv" /\ OutOfBounds(hp.c))
       => \A j \in NewRequests : txs'[j].kind \notin {"approve", "order"}]_vars

\* The first purchase of a page instance is an ETH payment and nothing has
\* disturbed it: the form was filled in with three edits, the fourth input
\* is the click, the transaction it requested is the only one and has not
\* failed, and the progress modal the click opened is still shown.
FirstEthPayment ==
  /\ page = "tv" /\ inputs = 4 /\ hp = NoCall
  /\ Len(txs) = 1 /\ txs[1].token = "ETH"
  /\ txs[1].status \in {"requested", "broadcast", "confirmed"}
  /\ st.showTransactionModal

\* The position of a status in the order of an ETH payment; the approval
\* statuses have none.
EthFlowRank(s) ==
  CASE s = "idle" -> 0
    [] s = "waitingForSignature" -> 1
    [] s = "sending" -> 2
    [] s = "confirming" -> 3
    [] s = "success" -> 4
    [] s = "backendProcessing" -> 5
    [] s \in {"backendSuccess", "backendError", "error"} -> 6
    [] OTHER -> -1

LatestFailed ==
  Len(txs) > 0 /\ txs[Len(txs)].status \in {"rejected", "reverted"}

\* C24: once the transaction requested last has failed, no step outside a
\* handlePurchase call hands a transaction to the wallet or schedules one.
C24_NoRetryAfterFailure ==
  [][(LatestFailed /\ hp = NoCall /\ hp' = NoCall)
       => /\ NewRequests = {}
          /\ Cardinality(ScheduledOrders(timers'))
               <= Cardinality(ScheduledOrders(timers))]_vars

\* C25: whenever the form holds an amount within [100, 50000] and a token
\* with a positive price, the token amount the page derives for the order
\* (amount / price, rounded to the token's decimals) is greater than zero.
C25_QuotePositive ==
  (/\ st.amount >= 100 /\ st.amount <= 50000
   /\ st.token # NoToken /\ priceNGN(st.token) > 0)
    => tokenAmountForOrder(st.token, st.amount) > 0

\* The TV page with what the program and the chain do by themselves taken
\* as fair: a pending render is committed, a handlePurchase call resumes
\* after its await, the debounce timer fires, a lookup is answered, a
\* broadcast transaction gets its receipt and the getOrder query is read.
\* The user, the wallet prompt and the fulfilment backend are not: a click
\* may never come and the backend may never answer.
SpecTVLive ==
  /\ InitTV
  /\ [][NextTV]_vars
  /\ WF_vars(Commit)
  /\ WF_vars(\E sim \in {"ok", "error", "pending"} : TV_handlePurchase(sim))
  /\ WF_vars(\E i \in 1..MaxTimers : verifyTimer(i))
  /\ WF_vars(\E b \in BenefInputs, found \in BOOLEAN : verifyResponse(b, found))
  /\ WF_vars(\E i \in 1..MaxTxs : receiptSuccess(i) \/ receiptReverted(i))
  /\ WF_vars(getOrder)

\* C26: a flow in backendProcessing eventually leaves it, whether or not
\* the backend answers.  The statuses it is to leave for are backendSuccess
\* and backendError; leaving because the user closed the flow or clicked
\* again is counted as leaving too, so that what remains is the call that
\* never ends.
C26_BackendProcessingEnds ==
  (st.txStatus = "backendProcessing") ~> (st.txStatus # "backendProcessing")

\* The backend requests answered by a step.
Answered == {p \in 1..Len(posts) : posts[p].status = "inflight" /\ posts'[p].status # "inflight"}

\* C27: an answer that is not a 2xx status, or whose body is not JSON, puts
\* the flow into backendError, and the flow enters backendSuccess only on a
\* 2xx answer with a JSON body.
C27_OnlyJson2xxSucceeds ==
  [][/\ \A p \in Answered :
          /\ posts'[p].response \in {"non-2xx", "2xx-other"}
               => (st'.txStatus = "backendError" /\ posts'[p].status = "failed")
          /\ posts'[p].response = "2xx-json"
               => (st'.txStatus = "backendSuccess" /\ posts'[p].status = "ok")
     /\ (st'.txStatus = "backendSuccess" /\ st.txStatus # "backendSuccess")
          => \E p \in Answered : posts'[p].response = "2xx-json"]_vars

\* A request was answered with a 2xx status and a body that is not JSON,
\* and the flow shows backendError with the failure message.
C27_Witness ==
  /\ st.txStatus = "backendError" /\ st.backendMessage.kind = "failed"
  /\ \E p \in 1..Len(posts) :
       posts[p].response = "2xx-other" /\ posts[p].status = "failed"

\* The position of a status in the order of a purchase attempt.  The
\* statuses that end an attempt, the error statuses included, come last:
\* entering one is a move forward from anywhere.
FlowRank(s) ==
  CASE s = "idle" -> 0
    [] s = "waitingForApprovalSignature" -> 1
    [] s = "approving" -> 2
    [] s = "approvalSuccess" -> 3
    [] s = "waitingForSignature" -> 4
    [] s = "sending" -> 5
    [] s = "confirming" -> 6
    [] s = "success" -> 7
    [] s = "backendProcessing" -> 8
    [] OTHER -> 9

\* A step of a running attempt.  The attempt has handed a transaction to
\* the wallet, and the step is neither a purchase click, which starts the
\* next attempt at idle, nor the handlePurchase call it starts, nor
\* handleCloseModal.
WithinAttempt ==
  /\ txs # <<>>
  /\ hp = NoCall /\ hp' = NoCall /\ ~ModalCloses

\* C28: within a purchase attempt the status never moves back: every change
\* of status is to a later one in the order idle, waitingForApprovalSignature,
\* approving, approvalSuccess, waitingForSignature, sending, confirming,
\* success, backendProcessing, or to a status that ends the attempt, and a
\* status that ends the attempt is not left.
C28_StatusMovesForward ==
  [][WithinAttempt => FlowRank(st'.txStatus) >= FlowRank(st.txStatus)]_vars

\* One purchase attempt has been made and nothing else: three form edits,
\* one click whose handlePurchase call has ended, a transaction handed to
\* the wallet, and the progress modal still shown.
SingleAttempt ==
  /\ inputs = 4 /\ hp = NoCall /\ txs # <<>>
  /\ st.showTransactionModal

\* The createOrder transactions whose hash is known: they were broadcast.
KnownOrderHashes ==
  {i \in OrderRequests : txs[i].status \in {"broadcast", "confirmed", "reverted"}}

\* C29: in an error status reached after the attempt's createOrder was
\* broadcast, the flow state still records the hash of a broadcast
\* createOrder.
C29_HashKeptThroughFailure ==
  (/\ SingleAttempt /\ ~Dirty
   /\ st.txStatus \in {"error", "approvalError", "backendError"}
   /\ KnownOrderHashes # {})
    => st.transactionHashForModal \in KnownOrderHashes

\* C30: in a committed render with no effect left to run, a request id
\* exists exactly when at least one form field is non-empty; in particular
\* the first field filled in on an empty form gets a request id generated.
C30_KeyIffFormHasData ==
  ~Dirty => (st.requestId # NoKey <=> FormHasData(st))

\* The form condition of each page's request id effect.
KeyExpected(s) == IF page = "tv" THEN TVFormComplete(s) ELSE FormHasData(s)

\* C30, amended: in a committed render with no effect left to run, a request
\* id exists exactly when the page's form condition holds: some field
\* non-empty on the airtime and electricity pages, every field filled in and
\* the smart card verified on the TV page.
C30_KeyIffFormCondition ==
  ~Dirty => (st.requestId # NoKey <=> KeyExpected(st))

C30_Witness ==
  /\ page = "tv" /\ ~Dirty /\ hp = NoCall /\ txs = <<>>
  /\ TVFormComplete(st) /\ st.requestId # NoKey

\* C31: on the electricity and TV pages every approval or createOrder
\* transaction requested from the wallet follows a Purchase click made in
\* a render whose beneficiary verification had succeeded.
C31_NoPurchaseUnverified ==
  [][(page \in {"electricity", "tv"} /\ NewRequests # {})
       => verifiedAtClick]_vars

\* C32: every createOrder handed to the wallet for the native asset carries
\* a value equal to its tokenAmount argument, and every createOrder for an
\* ERC20 token carries no value.
C32_ValueMatchesToken ==
  \A i \in OrderRequests :
    /\ txs[i].token = "ETH" => txs[i].value = txs[i].amount
    /\ txs[i].token # "ETH" => txs[i].value = 0

C32_Witness ==
  \E i \in OrderRequests :
    /\ txs[i].token = "ETH" /\ txs[i].amount > 0 /\ txs[i].value = txs[i].amount
    /\ txs[i].status = "confirmed"

\* C33: a createOrder transaction of the page that is confirmed on-chain
\* is eventually followed by a backend request carrying its hash.
C33_ConfirmedOrderIsPosted ==
  \A i \in 1..MaxTxs :
    (i \in OrderRequests /\ txs[i].status = "confirmed")
      ~> (\E p \in 1..Len(posts) : posts[p].hash = i)

\* C34: while the modal is hidden and the status idle after handleCloseModal,
\* with no handlePurchase call running, no approval and no createOrder is
\* handed to the wallet; the createOrder scheduled when the approval
\* confirmed does not fire then.
FlowClosed ==
  /\ ~st.showTransactionModal /\ st.txStatus = "idle"
  /\ hp = NoCall /\ isOnBaseChain /\ txs # <<>>

C34_NoRequestAfterClose ==
  [][FlowClosed => NewRequests = {}]_vars

\* C35: on the TV page a createOrder for an ERC20 token is handed to the
\* wallet only when an approval transaction for that same token has been
\* confirmed.
C35_OrderTokenWasApproved ==
  [][page = "tv" =>
       (\A j \in NewRequests :
          (txs'[j].kind = "order" /\ txs'[j].token # "ETH")
            => \E i \in ApprovalRequests :
                 /\ txs[i].token = txs'[j].token
                 /\ txs[i].status = "confirmed")]_vars

\* C36: a lookup response that marks the form verified was requested for
\* the beneficiary number the form holds when it arrives.
LookupAnswered(b) == b \in verifyInflight /\ b \notin verifyInflight'

C36_VerifiedForCurrentInput ==
  [][\A b \in BenefInputs :
       (LookupAnswered(b) /\ ~st.verificationSuccess /\ st'.verificationSuccess)
         => st.benef = b]_vars

\* C37: a backend request that carries the hash of a createOrder carries
\* the token and the amount that createOrder was submitted with: its token
\* is the order's token and the crypto amount of its local amount is the
\* order's tokenAmount.
C37_PayloadIsTheOrders ==
  \A p \in 1..Len(posts) :
    posts[p].hash \in OrderRequests
      => /\ posts[p].token = txs[posts[p].hash].token
         /\ tokenAmountForOrder(posts[p].token, posts[p].amount)
              = txs[posts[p].hash].amount
=============================================================================
